---- MODULE Spec2Model ----
(***************************************************************************)
(* Model of package basemodel (basemodel.go): the BaseCollection record,   *)
(* its three metadata setters and its five accessors.                      *)
(*                                                                         *)
(* A time.Time is an integer number of clock ticks; the zero time.Time is  *)
(* 0.  A *time.Time is an address in heap (1..Len(heap)) or Nil.  An        *)
(* ObjectID is the record [ts, proc, ctr] of the three parts that           *)
(* primitive.NewObjectID packs into twelve bytes.                           *)
(***************************************************************************)
EXTENDS Integers, Sequences, FiniteSets, TLC

\* ---- bounds of the model ----
\* the last reading of the clock
MaxClock == 3
\* the last reading of the clock while the concurrent callers run
MaxClockConc == 4
\* the number of time.Time values that may be allocated
MaxAllocs == 2
\* the number of ObjectIDs that may be generated
MaxObjectIDs == 2
\* clock ticks in one second (an ObjectID's timestamp is in whole seconds)
TicksPerSecond == 2

\* ---- widths of the ObjectID layout ----
\* the ObjectID counter is three bytes wide
CounterMod == 16777216

\* the BaseCollection values of the process
Records == {1, 2}

\* the three setters
Setters == {"SetInsertMeta", "SetUpdateMeta", "SetDeleteMeta"}

\* a nil *time.Time
Nil == 0

\* the zero time.Time
ZeroTime == 0

\* the zero primitive.ObjectID (twelve zero bytes)
NilObjectID == [ts |-> 0, proc |-> <<0, 0, 0, 0, 0>>, ctr |-> 0]

\* the 5-byte process-unique values a process may have drawn at start-up
ProcessUniques == {<<0, 0, 0, 0, 0>>, <<18, 52, 86, 120, 154>>}

\* the values the 3-byte ObjectID counter may start from (the driver draws
\* it at random; this start makes the counter wrap to 0 at the second
\* identifier)
CounterStarts == {CounterMod - 2}

VARIABLES records, heap, clock, objectIDCounter, processUnique, generated, applied, lastOp

\* state of the concurrent callers of one record (specification SpecConc)
\* and of the references a caller keeps (specification SpecAlias)
VARIABLES shared, callers, held

vars == <<records, heap, clock, objectIDCounter, processUnique, generated, applied, lastOp,
          shared, callers, held>>

\* the variables the sequential operations on records do not touch
otherVars == <<shared, callers, held>>

\* the zero value of struct BaseCollection
BaseCollection == [Oid |-> NilObjectID, CreatedAt |-> ZeroTime, UpdatedAt |-> Nil, DeletedAt |-> Nil]

\* time.Now(): the current reading of the clock
Now == clock

\* *p for a non-nil *time.Time
Deref(p) == heap[p]

\* ---- primitive.ObjectID.Hex ----
HexChars == <<"0", "1", "2", "3", "4", "5", "6", "7", "8", "9", "a", "b", "c", "d", "e", "f">>

RECURSIVE HexOf(_, _)
\* n as `digits` lowercase hexadecimal digits, most significant first
HexOf(n, digits) ==
    IF digits = 0 THEN <<>>
    ELSE Append(HexOf(n \div 16, digits - 1), HexChars[(n % 16) + 1])

RECURSIVE HexBytes(_)
HexBytes(bs) ==
    IF bs = <<>> THEN <<>>
    ELSE HexOf(Head(bs), 2) \o HexBytes(Tail(bs))

\* the 24 hexadecimal characters of the twelve bytes: 4 of timestamp,
\* 5 of process unique, 3 of counter, each big-endian
Hex(oid) == HexOf(oid.ts, 8) \o HexBytes(oid.proc) \o HexOf(oid.ctr, 6)

\* primitive.NewObjectID at time t with the counter at c
NewObjectID(t, c) == [ts |-> t \div TicksPerSecond, proc |-> processUnique, ctr |-> c]

\* ---- accessors (pure reads of a BaseCollection value b) ----
\* (variant) IsDeleted tests the wrong optional timestamp
IsDeleted_ByUpdatedAt(b) == b.UpdatedAt # Nil

IsDeleted(b) == b.DeletedAt # Nil

\* (variant) GetID renders with ObjectID.String instead of ObjectID.Hex
GetID_String(b) == <<"O", "b", "j", "e", "c", "t", "I", "D", "(">> \o Hex(b.Oid) \o <<")">>

GetID(b) == Hex(b.Oid)

GetCreatedAt(b) == b.CreatedAt

\* (variant) GetUpdatedAt returns the other optional timestamp
GetUpdatedAt_ReturnsDeletedAt(b) == b.DeletedAt

GetUpdatedAt(b) == b.UpdatedAt

GetDeletedAt(b) == b.DeletedAt

\* ---- the fields a setter writes ----
\* (variant) SetInsertMeta resets the record to a new one, clearing UpdatedAt
InsertMeta_ClearsUpdatedAt(b, now, oid) ==
    [b EXCEPT !.Oid = oid, !.CreatedAt = now, !.UpdatedAt = Nil]

\* (variant) SetInsertMeta undeletes the record
InsertMeta_ClearsDeletedAt(b, now, oid) ==
    [b EXCEPT !.Oid = oid, !.CreatedAt = now, !.DeletedAt = Nil]

\* (variant) SetInsertMeta keeps an identifier the record already has
InsertMeta_KeepsExistingOid(b, now, oid) ==
    IF b.Oid = NilObjectID
    THEN [b EXCEPT !.Oid = oid, !.CreatedAt = now]
    ELSE [b EXCEPT !.CreatedAt = now]

InsertMeta(b, now, oid) == [b EXCEPT !.Oid = oid, !.CreatedAt = now]

\* (variant) SetUpdateMeta has a value receiver: its write is lost
UpdateMeta_ValueReceiver(b, p) == b

\* (variant) SetUpdateMeta stamps only a record that has no UpdatedAt yet
UpdateMeta_OnlyFirst(b, p) ==
    IF b.UpdatedAt = Nil THEN [b EXCEPT !.UpdatedAt = p] ELSE b

\* (variant) SetUpdateMeta assigns the field SetDeleteMeta assigns
UpdateMeta_WritesDeletedAt(b, p) == [b EXCEPT !.DeletedAt = p]

\* (variant) SetUpdateMeta undeletes the record
UpdateMeta_ClearsDeletedAt(b, p) == [b EXCEPT !.UpdatedAt = p, !.DeletedAt = Nil]

\* (variant) SetUpdateMeta also restamps CreatedAt
UpdateMeta_RestampsCreatedAt(b, p) == [b EXCEPT !.UpdatedAt = p, !.CreatedAt = clock]

UpdateMeta(b, p) == [b EXCEPT !.UpdatedAt = p]

\* (variant) SetDeleteMeta counts as an update and stamps UpdatedAt too
DeleteMeta_StampsUpdatedAt(b, p) == [b EXCEPT !.DeletedAt = p, !.UpdatedAt = p]

DeleteMeta(b, p) == [b EXCEPT !.DeletedAt = p]

\* ---- one record called concurrently ----
\* the goroutines that each make one setter call on the shared record
Callers == {"a", "b"}

\* a time.Time as the machine words an assignment copies: wall (the wall
\* clock reading) and ext (the monotonic reading); the third word, loc, is
\* the same pointer in every value time.Now returns
TimeWords(t) == [wall |-> t, ext |-> t]

\* the shared BaseCollection before any call
SharedZero ==
    [Oid |-> NilObjectID, CreatedAt |-> TimeWords(ZeroTime), UpdatedAt |-> Nil, DeletedAt |-> Nil]

\* a caller that has not started: op is its setter, pc its position, now
\* its local `now` (the zero time until it is read), ptr the address of `now` when it
\* escapes, oid the identifier NewObjectID returned to it, stored the words
\* it has written to the record so far
Caller(op) ==
    [op |-> op, pc |-> "start", now |-> ZeroTime, ptr |-> Nil, oid |-> NilObjectID,
     stored |-> <<>>]

\* no reference kept
NoRef ==
    [kind |-> "none", r |-> 0, UpdatedAt |-> Nil, DeletedAt |-> Nil,
     seenUpdatedAt |-> ZeroTime, seenDeletedAt |-> ZeroTime]

Init ==
    /\ shared = SharedZero
    /\ callers = [c \in Callers |-> Caller("none")]
    /\ held = NoRef
    /\ records = [r \in Records |-> BaseCollection]
    /\ heap = <<>>
    /\ clock = TicksPerSecond
    /\ objectIDCounter \in CounterStarts
    /\ processUnique \in ProcessUniques
    /\ generated = <<>>
    /\ applied = [r \in Records |-> {}]
    /\ lastOp = [op |-> "new", r |-> 0, ret |-> "none"]

\* the clock advances between calls
Tick ==
    /\ clock < MaxClock
    /\ clock' = clock + 1
    /\ lastOp' = [op |-> "Tick", r |-> 0, ret |-> "none"]
    /\ UNCHANGED <<records, heap, objectIDCounter, processUnique, generated, applied>>
    /\ UNCHANGED otherVars

SetInsertMeta(r) ==
    /\ Len(generated) < MaxObjectIDs
    /\ LET now == Now
           c == (objectIDCounter + 1) % CounterMod
           oid == NewObjectID(now, c)
       IN  /\ objectIDCounter' = c
           /\ generated' = Append(generated, oid)
           /\ records' = [records EXCEPT ![r] = InsertMeta(records[r], now, oid)]
    /\ applied' = [applied EXCEPT ![r] = @ \cup {"SetInsertMeta"}]
    /\ lastOp' = [op |-> "SetInsertMeta", r |-> r, ret |-> "none"]
    /\ UNCHANGED <<heap, clock, processUnique>>
    /\ UNCHANGED otherVars

\* (variant) SetUpdateMeta refuses a record that was never inserted
SetUpdateMeta_RequiresInsert(r) ==
    /\ Len(heap) < MaxAllocs
    /\ records[r].Oid # NilObjectID
    /\ heap' = Append(heap, Now)
    /\ records' = [records EXCEPT ![r] = UpdateMeta(records[r], Len(heap) + 1)]
    /\ applied' = [applied EXCEPT ![r] = @ \cup {"SetUpdateMeta"}]
    /\ lastOp' = [op |-> "SetUpdateMeta", r |-> r, ret |-> "none"]
    /\ UNCHANGED <<clock, objectIDCounter, processUnique, generated>>
    /\ UNCHANGED otherVars

\* (variant) SetUpdateMeta reuses the time.Time the record already points to
SetUpdateMeta_InPlace(r) ==
    /\ Len(heap) < MaxAllocs
    /\ IF records[r].UpdatedAt = Nil
       THEN /\ heap' = Append(heap, Now)
            /\ records' = [records EXCEPT ![r] = UpdateMeta(records[r], Len(heap) + 1)]
       ELSE /\ heap' = [heap EXCEPT ![records[r].UpdatedAt] = Now]
            /\ records' = records
    /\ applied' = [applied EXCEPT ![r] = @ \cup {"SetUpdateMeta"}]
    /\ lastOp' = [op |-> "SetUpdateMeta", r |-> r, ret |-> "none"]
    /\ UNCHANGED <<clock, objectIDCounter, processUnique, generated>>
    /\ UNCHANGED otherVars

SetUpdateMeta(r) ==
    /\ Len(heap) < MaxAllocs
    /\ LET now == Now
       IN  /\ heap' = Append(heap, now)
           /\ records' = [records EXCEPT ![r] = UpdateMeta(records[r], Len(heap) + 1)]
    /\ applied' = [applied EXCEPT ![r] = @ \cup {"SetUpdateMeta"}]
    /\ lastOp' = [op |-> "SetUpdateMeta", r |-> r, ret |-> "none"]
    /\ UNCHANGED <<clock, objectIDCounter, processUnique, generated>>
    /\ UNCHANGED otherVars

SetDeleteMeta(r) ==
    /\ Len(heap) < MaxAllocs
    /\ LET now == Now
       IN  /\ heap' = Append(heap, now)
           /\ records' = [records EXCEPT ![r] = DeleteMeta(records[r], Len(heap) + 1)]
    /\ applied' = [applied EXCEPT ![r] = @ \cup {"SetDeleteMeta"}]
    /\ lastOp' = [op |-> "SetDeleteMeta", r |-> r, ret |-> "none"]
    /\ UNCHANGED <<clock, objectIDCounter, processUnique, generated>>
    /\ UNCHANGED otherVars

CallIsDeleted(r) ==
    /\ lastOp' = [op |-> "IsDeleted", r |-> r, ret |-> IsDeleted(records[r])]
    /\ UNCHANGED <<records, heap, clock, objectIDCounter, processUnique, generated, applied>>
    /\ UNCHANGED otherVars

CallGetID(r) ==
    /\ lastOp' = [op |-> "GetID", r |-> r, ret |-> GetID(records[r])]
    /\ UNCHANGED <<records, heap, clock, objectIDCounter, processUnique, generated, applied>>
    /\ UNCHANGED otherVars

CallGetCreatedAt(r) ==
    /\ lastOp' = [op |-> "GetCreatedAt", r |-> r, ret |-> GetCreatedAt(records[r])]
    /\ UNCHANGED <<records, heap, clock, objectIDCounter, processUnique, generated, applied>>
    /\ UNCHANGED otherVars

CallGetUpdatedAt(r) ==
    /\ lastOp' = [op |-> "GetUpdatedAt", r |-> r, ret |-> GetUpdatedAt(records[r])]
    /\ UNCHANGED <<records, heap, clock, objectIDCounter, processUnique, generated, applied>>
    /\ UNCHANGED otherVars

CallGetDeletedAt(r) ==
    /\ lastOp' = [op |-> "GetDeletedAt", r |-> r, ret |-> GetDeletedAt(records[r])]
    /\ UNCHANGED <<records, heap, clock, objectIDCounter, processUnique, generated, applied>>
    /\ UNCHANGED otherVars

Next ==
    \/ Tick
    \/ \E r \in Records : SetInsertMeta(r)
    \/ \E r \in Records : SetUpdateMeta(r)
    \/ \E r \in Records : SetDeleteMeta(r)
    \/ \E r \in Records : CallIsDeleted(r)
    \/ \E r \in Records : CallGetID(r)
    \/ \E r \in Records : CallGetCreatedAt(r)
    \/ \E r \in Records : CallGetUpdatedAt(r)
    \/ \E r \in Records : CallGetDeletedAt(r)

Spec == Init /\ [][Next]_vars

\* ---- the setters, statement by statement, on the shared record ----
\* (variant) SetInsertMeta assigns CreatedAt before it generates and assigns Oid
Program_CreatedAtFirst(op) ==
    IF op = "SetInsertMeta"
    THEN <<"start", "storeCreatedAt", "newObjectID", "storeOid", "done">>
    ELSE <<"start", "storePtr", "done">>

\* the positions of a call in program order: "start" before `now :=
\* time.Now()`, "newObjectID" before the call of primitive.NewObjectID,
\* "storeOid" and "storeCreatedAt" before (or in the middle of) the
\* assignment of that field, "storePtr" before the assignment of &now
Program(op) ==
    IF op = "SetInsertMeta"
    THEN <<"start", "newObjectID", "storeOid", "storeCreatedAt", "done">>
    ELSE <<"start", "storePtr", "done">>

\* the position that follows pc in the program of op
After(op, pc) ==
    LET i == CHOOSE j \in 1..Len(Program(op)) : Program(op)[j] = pc
    IN  Program(op)[i + 1]

\* the machine words an assignment at pc copies: an ObjectID is twelve
\* bytes (an 8-byte and a 4-byte move), a time.Time is wall and ext
Words(pc) ==
    CASE pc = "storeOid" -> {"hi", "lo"}
      [] pc = "storeCreatedAt" -> {"wall", "ext"}
      [] OTHER -> {}

\* the words of the assignment at its position that caller c has yet to write
Pending(c) ==
    Words(callers[c].pc) \ {callers[c].stored[i] : i \in 1..Len(callers[c].stored)}

\* the record sh after caller cl has written word w of its value: "hi" is
\* the timestamp and the first four process bytes, "lo" the fifth process
\* byte and the counter
WriteWord(sh, w, cl) ==
    CASE w = "hi" ->
            [sh EXCEPT !.Oid.ts = cl.oid.ts,
                       !.Oid.proc = SubSeq(cl.oid.proc, 1, 4) \o SubSeq(sh.Oid.proc, 5, 5)]
      [] w = "lo" ->
            [sh EXCEPT !.Oid.ctr = cl.oid.ctr,
                       !.Oid.proc = SubSeq(sh.Oid.proc, 1, 4) \o SubSeq(cl.oid.proc, 5, 5)]
      [] w = "wall" -> [sh EXCEPT !.CreatedAt.wall = cl.now]
      [] w = "ext" -> [sh EXCEPT !.CreatedAt.ext = cl.now]

InitConc ==
    /\ shared = SharedZero
    /\ callers \in [Callers -> {Caller(op) : op \in Setters}]
    /\ held = NoRef
    /\ records = [r \in Records |-> BaseCollection]
    /\ heap = <<>>
    /\ clock = TicksPerSecond
    /\ objectIDCounter \in CounterStarts
    /\ processUnique \in ProcessUniques
    /\ generated = <<>>
    /\ applied = [r \in Records |-> {}]
    /\ lastOp = [op |-> "new", r |-> 0, ret |-> "none"]

\* the clock advances while the callers run
TickConc ==
    /\ clock < MaxClockConc
    /\ clock' = clock + 1
    /\ UNCHANGED <<records, heap, objectIDCounter, processUnique, generated, applied, lastOp>>
    /\ UNCHANGED otherVars

\* now := time.Now(); in SetUpdateMeta and SetDeleteMeta `now` escapes (its
\* address is stored), so it is a newly allocated time.Time
ReadClock(c) ==
    /\ callers[c].pc = "start"
    /\ IF callers[c].op = "SetInsertMeta"
       THEN /\ callers' = [callers EXCEPT ![c].now = Now,
                                          ![c].pc = After(callers[c].op, "start")]
            /\ heap' = heap
       ELSE /\ callers' = [callers EXCEPT ![c].now = Now,
                                          ![c].ptr = Len(heap) + 1,
                                          ![c].pc = After(callers[c].op, "start")]
            /\ heap' = Append(heap, Now)
    /\ UNCHANGED <<records, clock, objectIDCounter, processUnique, generated, applied, lastOp>>
    /\ UNCHANGED <<shared, held>>

\* primitive.NewObjectID(): the counter is incremented atomically
CallNewObjectID(c) ==
    /\ callers[c].pc = "newObjectID"
    /\ LET n == (objectIDCounter + 1) % CounterMod
           oid == NewObjectID(Now, n)
       IN  /\ objectIDCounter' = n
           /\ generated' = Append(generated, oid)
           /\ callers' = [callers EXCEPT ![c].oid = oid,
                                         ![c].pc = After(callers[c].op, "newObjectID")]
    /\ UNCHANGED <<records, heap, clock, processUnique, applied, lastOp>>
    /\ UNCHANGED <<shared, held>>

\* b.Oid = ... and b.CreatedAt = now: one machine word of the value is
\* written, in no fixed order within the assignment
StoreWord(c, w) ==
    /\ w \in Pending(c)
    /\ shared' = WriteWord(shared, w, callers[c])
    /\ callers' = [callers EXCEPT
                     ![c].stored = Append(@, w),
                     ![c].pc = IF Pending(c) = {w}
                               THEN After(callers[c].op, callers[c].pc)
                               ELSE callers[c].pc]
    /\ UNCHANGED <<records, heap, clock, objectIDCounter, processUnique, generated, applied, lastOp>>
    /\ UNCHANGED held

\* (variant) the pointer assignment is lost (a value receiver)
StorePointer_Lost(c) ==
    /\ callers[c].pc = "storePtr"
    /\ callers' = [callers EXCEPT ![c].stored = Append(@, "ptr"),
                                  ![c].pc = After(callers[c].op, "storePtr")]
    /\ UNCHANGED <<records, heap, clock, objectIDCounter, processUnique, generated, applied, lastOp>>
    /\ UNCHANGED <<shared, held>>

\* b.UpdatedAt = &now, b.DeletedAt = &now: a pointer is one machine word
StorePointer(c) ==
    /\ callers[c].pc = "storePtr"
    /\ shared' = IF callers[c].op = "SetUpdateMeta"
                 THEN [shared EXCEPT !.UpdatedAt = callers[c].ptr]
                 ELSE [shared EXCEPT !.DeletedAt = callers[c].ptr]
    /\ callers' = [callers EXCEPT ![c].stored = Append(@, "ptr"),
                                  ![c].pc = After(callers[c].op, "storePtr")]
    /\ UNCHANGED <<records, heap, clock, objectIDCounter, processUnique, generated, applied, lastOp>>
    /\ UNCHANGED held

NextConc ==
    \/ TickConc
    \/ \E c \in Callers : ReadClock(c)
    \/ \E c \in Callers : CallNewObjectID(c)
    \/ \E c \in Callers : \E w \in {"hi", "lo", "wall", "ext"} : StoreWord(c, w)
    \/ \E c \in Callers : StorePointer(c)

SpecConc == InitConc /\ [][NextConc]_vars

\* ---- references kept by a caller ----
\* what a caller keeps of record r: the pointers ptrU and ptrD it got and
\* the times it saw through them when it got them
Kept(kind, r, ptrU, ptrD) ==
    [kind |-> kind, r |-> r, UpdatedAt |-> ptrU, DeletedAt |-> ptrD,
     seenUpdatedAt |-> IF ptrU = Nil THEN ZeroTime ELSE Deref(ptrU),
     seenDeletedAt |-> IF ptrD = Nil THEN ZeroTime ELSE Deref(ptrD)]

\* p := r.GetUpdatedAt(), and the caller keeps p
KeepUpdatedAt(r) ==
    /\ held' = Kept("ref", r, GetUpdatedAt(records[r]), Nil)
    /\ lastOp' = [op |-> "GetUpdatedAt", r |-> r, ret |-> GetUpdatedAt(records[r])]
    /\ UNCHANGED <<records, heap, clock, objectIDCounter, processUnique, generated, applied>>
    /\ UNCHANGED <<shared, callers>>

\* p := r.GetDeletedAt(), and the caller keeps p
KeepDeletedAt(r) ==
    /\ held' = Kept("ref", r, Nil, GetDeletedAt(records[r]))
    /\ lastOp' = [op |-> "GetDeletedAt", r |-> r, ret |-> GetDeletedAt(records[r])]
    /\ UNCHANGED <<records, heap, clock, objectIDCounter, processUnique, generated, applied>>
    /\ UNCHANGED <<shared, callers>>

\* c := *r, a copy of the record by value: its pointers are copied, the
\* times they point to are not
CopyRecord(r) ==
    /\ held' = Kept("copy", r, records[r].UpdatedAt, records[r].DeletedAt)
    /\ lastOp' = [op |-> "copy", r |-> r, ret |-> "none"]
    /\ UNCHANGED <<records, heap, clock, objectIDCounter, processUnique, generated, applied>>
    /\ UNCHANGED <<shared, callers>>

NextAlias ==
    \/ Tick
    \/ \E r \in Records : SetInsertMeta(r)
    \/ \E r \in Records : SetUpdateMeta(r)
    \/ \E r \in Records : SetDeleteMeta(r)
    \/ \E r \in Records : KeepUpdatedAt(r)
    \/ \E r \in Records : KeepDeletedAt(r)
    \/ \E r \in Records : CopyRecord(r)

SpecAlias == Init /\ [][NextAlias]_vars

\* ---- vocabulary of the properties ----
\* the step just taken was operation op on record r
Did(op, r) == lastOp'.op = op /\ lastOp'.r = r

\* a pointer is present: it is the address of an allocated time.Time
Present(p) == p \in 1..Len(heap)

\* "000000000000000000000000"
ZeroHex == <<"0", "0", "0", "0", "0", "0", "0", "0", "0", "0", "0", "0",
             "0", "0", "0", "0", "0", "0", "0", "0", "0", "0", "0", "0">>

\* s is a string of 24 lowercase hexadecimal characters
IsHex24(s) ==
    /\ Len(s) = 24
    /\ \A i \in 1..Len(s) : \E k \in 1..16 : s[i] = HexChars[k]

\* ---- C1 ----
\* C1: a step that is not SetInsertMeta on record r (a SetUpdateMeta, a
\* SetDeleteMeta, an accessor call, any operation on another record, a clock
\* tick) leaves r's Oid and CreatedAt exactly as they were; so after an
\* insert they keep their post-insert values until the next SetInsertMeta.
C1_IdAndCreatedAtKept ==
    [][\A r \in Records :
          ~Did("SetInsertMeta", r) =>
              /\ records'[r].Oid = records[r].Oid
              /\ records'[r].CreatedAt = records[r].CreatedAt]_vars

\* an inserted record has since been updated and then deleted, and still
\* carries the identifier and creation time the insert gave it
C1_Witness ==
    \E r \in Records :
        /\ applied[r] = Setters
        /\ lastOp.op = "SetDeleteMeta" /\ lastOp.r = r
        /\ records[r].Oid \in {generated[i] : i \in 1..Len(generated)}
        /\ records[r].CreatedAt # ZeroTime
        /\ clock > records[r].CreatedAt

\* ---- C2 ----
\* C2: in every reachable state, for every record, IsDeleted() is true
\* exactly when DeletedAt is present (it is the address of an allocated
\* timestamp), whatever the other fields hold; and a call of IsDeleted
\* returns that value.
C2_IsDeletedIffDeletedAtPresent ==
    /\ \A r \in Records :
          /\ IsDeleted(records[r]) <=> Present(records[r].DeletedAt)
          /\ IsDeleted(records[r]) <=> "SetDeleteMeta" \in applied[r]
    /\ lastOp.op = "IsDeleted" =>
          (lastOp.ret <=> Present(records[lastOp.r].DeletedAt))

\* IsDeleted was called and returned true on a record that was deleted, and
\* another record has been updated but is not deleted
C2_Witness ==
    /\ lastOp.op = "IsDeleted" /\ lastOp.ret = TRUE
    /\ \E r \in Records :
          /\ records[r].UpdatedAt # Nil
          /\ records[r].DeletedAt = Nil

\* ---- C3 ----
\* C3: a record to which no setter has been applied reads as the zero value:
\* GetID() is the 24-character all-zero string, GetCreatedAt() the zero
\* time, GetUpdatedAt() and GetDeletedAt() nil, IsDeleted() false; and the
\* accessor calls on it return these values.
C3_FreshRecord ==
    /\ \A r \in Records :
          applied[r] = {} =>
              /\ GetID(records[r]) = ZeroHex
              /\ GetCreatedAt(records[r]) = ZeroTime
              /\ GetUpdatedAt(records[r]) = Nil
              /\ GetDeletedAt(records[r]) = Nil
              /\ IsDeleted(records[r]) = FALSE
    /\ (lastOp.r \in Records /\ applied[lastOp.r] = {}) =>
          /\ lastOp.op = "GetID" => lastOp.ret = ZeroHex
          /\ lastOp.op = "GetCreatedAt" => lastOp.ret = ZeroTime
          /\ lastOp.op = "GetUpdatedAt" => lastOp.ret = Nil
          /\ lastOp.op = "GetDeletedAt" => lastOp.ret = Nil
          /\ lastOp.op = "IsDeleted" => lastOp.ret = FALSE

\* GetID was called on a record that is still fresh while the other record
\* has been inserted, updated and deleted
C3_Witness ==
    /\ lastOp.op = "GetID"
    /\ applied[lastOp.r] = {}
    /\ \E r \in Records : applied[r] = Setters

\* ---- C4 ----
\* C4: a SetInsertMeta step on record r sets Oid to an identifier other than
\* the zero ObjectID, which GetID renders as 24 hexadecimal characters other
\* than the all-zero string, sets CreatedAt to the clock reading of the
\* call, and leaves UpdatedAt and DeletedAt as they were; on a record no
\* setter had touched, both are still nil afterwards.
C4_InsertEffectAndFrame ==
    [][\A r \in Records :
          Did("SetInsertMeta", r) =>
              /\ records'[r].Oid # NilObjectID
              /\ \A id \in {GetID(records'[r])} : IsHex24(id) /\ id # ZeroHex
              /\ records'[r].CreatedAt = clock
              /\ records'[r].CreatedAt # ZeroTime
              /\ records'[r].UpdatedAt = records[r].UpdatedAt
              /\ records'[r].DeletedAt = records[r].DeletedAt
              /\ applied[r] = {} =>
                    records'[r].UpdatedAt = Nil /\ records'[r].DeletedAt = Nil
              /\ heap' = heap]_vars

\* SetInsertMeta has just run on a record that had been updated and deleted
\* before, and it has also run on a record that was fresh
C4_Witness ==
    /\ lastOp.op = "SetInsertMeta"
    /\ applied[lastOp.r] = Setters
    /\ records[lastOp.r].UpdatedAt # Nil
    /\ records[lastOp.r].DeletedAt # Nil
    /\ \E r \in Records : applied[r] = {"SetInsertMeta"}

\* ---- C5 ----
\* C5: SetUpdateMeta is enabled in every state (short of the allocation
\* bound), and a SetUpdateMeta step on record r makes UpdatedAt the address
\* of a timestamp equal to the clock reading of the call and leaves Oid,
\* CreatedAt and DeletedAt (the pointer and the time it points to) unchanged.
C5_UpdateEffectAndFrame ==
    [][\A r \in Records :
        /\ Len(heap) < MaxAllocs => ENABLED SetUpdateMeta(r)
        /\ Did("SetUpdateMeta", r) =>
              /\ records'[r].UpdatedAt \in 1..Len(heap')
              /\ heap'[records'[r].UpdatedAt] = clock
              /\ records'[r].Oid = records[r].Oid
              /\ records'[r].CreatedAt = records[r].CreatedAt
              /\ records'[r].DeletedAt = records[r].DeletedAt
              /\ records[r].DeletedAt # Nil =>
                    heap'[records'[r].DeletedAt] = heap[records[r].DeletedAt]]_vars

\* SetUpdateMeta has just run on a record that was inserted and deleted
\* earlier, at a later clock reading than both
C5_Witness ==
    /\ lastOp.op = "SetUpdateMeta"
    /\ applied[lastOp.r] = Setters
    /\ records[lastOp.r].DeletedAt # Nil
    /\ heap[records[lastOp.r].UpdatedAt] > heap[records[lastOp.r].DeletedAt]
    /\ heap[records[lastOp.r].UpdatedAt] > records[lastOp.r].CreatedAt

\* ---- C6 ----
\* C6: SetDeleteMeta is enabled in every state (short of the allocation
\* bound), and a SetDeleteMeta step on record r makes DeletedAt the address
\* of a timestamp equal to the clock reading of the call, so that IsDeleted()
\* is true right after it, and leaves Oid, CreatedAt and UpdatedAt (the
\* pointer and the time it points to) unchanged.
C6_DeleteEffectAndFrame ==
    [][\A r \in Records :
        /\ Len(heap) < MaxAllocs => ENABLED SetDeleteMeta(r)
        /\ Did("SetDeleteMeta", r) =>
              /\ records'[r].DeletedAt \in 1..Len(heap')
              /\ heap'[records'[r].DeletedAt] = clock
              /\ IsDeleted(records'[r])
              /\ records'[r].Oid = records[r].Oid
              /\ records'[r].CreatedAt = records[r].CreatedAt
              /\ records'[r].UpdatedAt = records[r].UpdatedAt
              /\ records[r].UpdatedAt # Nil =>
                    heap'[records'[r].UpdatedAt] = heap[records[r].UpdatedAt]]_vars

\* SetDeleteMeta has just run on a record that was inserted and updated at
\* an earlier clock reading
C6_Witness ==
    /\ lastOp.op = "SetDeleteMeta"
    /\ applied[lastOp.r] = Setters
    /\ IsDeleted(records[lastOp.r])
    /\ records[lastOp.r].UpdatedAt # Nil
    /\ heap[records[lastOp.r].DeletedAt] > heap[records[lastOp.r].UpdatedAt]

\* ---- C7 ----
\* C7: no step clears UpdatedAt or DeletedAt: a field that is present before
\* a step (of any operation, on any record) is present after it; so a
\* record for which IsDeleted() is true stays deleted, also across a
\* SetInsertMeta.
C7_NeverCleared ==
    [][\A r \in Records :
          /\ records[r].UpdatedAt # Nil => records'[r].UpdatedAt # Nil
          /\ records[r].DeletedAt # Nil => records'[r].DeletedAt # Nil
          /\ IsDeleted(records[r]) => IsDeleted(records'[r])]_vars

\* a record that was updated and deleted has been inserted again and is
\* still updated and deleted
C7_Witness ==
    /\ lastOp.op = "SetInsertMeta"
    /\ {"SetUpdateMeta", "SetDeleteMeta"} \subseteq applied[lastOp.r]
    /\ records[lastOp.r].CreatedAt > heap[records[lastOp.r].DeletedAt]
    /\ records[lastOp.r].UpdatedAt # Nil
    /\ IsDeleted(records[lastOp.r])

\* ---- C8 ----
\* C8: a SetUpdateMeta step on a record whose UpdatedAt is already present
\* overwrites it with the clock reading of the call, which is never older
\* than the timestamp it held and is strictly newer when the clock has
\* advanced past that timestamp (a delay between the two calls); the same
\* for SetDeleteMeta and DeletedAt.
C8_RepeatedSetterNewer ==
    [][\A r \in Records :
          /\ (Did("SetUpdateMeta", r) /\ records[r].UpdatedAt # Nil) =>
                /\ records'[r].UpdatedAt # Nil
                /\ heap'[records'[r].UpdatedAt] = clock
                /\ heap'[records'[r].UpdatedAt] >= heap[records[r].UpdatedAt]
                /\ clock > heap[records[r].UpdatedAt] =>
                      heap'[records'[r].UpdatedAt] > heap[records[r].UpdatedAt]
          /\ (Did("SetDeleteMeta", r) /\ records[r].DeletedAt # Nil) =>
                /\ records'[r].DeletedAt # Nil
                /\ heap'[records'[r].DeletedAt] = clock
                /\ heap'[records'[r].DeletedAt] >= heap[records[r].DeletedAt]
                /\ clock > heap[records[r].DeletedAt] =>
                      heap'[records'[r].DeletedAt] > heap[records[r].DeletedAt]]_vars

\* SetUpdateMeta has run twice on the same record with a clock tick between
\* the calls: the first timestamp is the older one
C8_Witness ==
    /\ lastOp.op = "SetUpdateMeta"
    /\ applied[lastOp.r] = {"SetUpdateMeta"}
    /\ \A r \in Records \ {lastOp.r} : applied[r] = {}
    /\ Len(heap) = 2
    /\ records[lastOp.r].UpdatedAt = 2
    /\ heap[1] < heap[2]

C10_UpdatedAfterCreated ==
    [][\A r \in Records :
          (Did("SetUpdateMeta", r) /\ "SetInsertMeta" \in applied[r]) =>
              /\ records'[r].UpdatedAt # Nil
              /\ heap'[records'[r].UpdatedAt] >= records'[r].CreatedAt
              /\ clock > records[r].CreatedAt =>
                    heap'[records'[r].UpdatedAt] > records'[r].CreatedAt]_vars

\* a record was inserted and, after a clock tick, updated
C10_Witness ==
    /\ lastOp.op = "SetUpdateMeta"
    /\ applied[lastOp.r] = {"SetInsertMeta", "SetUpdateMeta"}
    /\ records[lastOp.r].CreatedAt # ZeroTime
    /\ heap[records[lastOp.r].UpdatedAt] > records[lastOp.r].CreatedAt

\* ---- C11 ----
\* C11: a record on which SetDeleteMeta has not been called is not deleted
\* (DeletedAt is nil and IsDeleted() is false, also when called), whatever
\* SetInsertMeta, SetUpdateMeta and accessor calls it has seen; and the only
\* step that takes a record from not deleted to deleted is a SetDeleteMeta
\* on that record.
C11_OnlyDeleteMakesDeleted ==
    [][\A r \in Records :
          /\ "SetDeleteMeta" \notin applied[r] =>
                records[r].DeletedAt = Nil /\ ~IsDeleted(records[r])
          /\ (Did("IsDeleted", r) /\ "SetDeleteMeta" \notin applied[r]) =>
                lastOp'.ret = FALSE
          /\ (~IsDeleted(records[r]) /\ IsDeleted(records'[r])) =>
                Did("SetDeleteMeta", r)
          /\ (~IsDeleted(records[r]) /\ Did("SetDeleteMeta", r)) =>
                IsDeleted(records'[r])]_vars

\* IsDeleted was called, and returned false, on a record that has been
\* inserted and updated, while the other record has been deleted
C11_Witness ==
    /\ lastOp.op = "IsDeleted" /\ lastOp.ret = FALSE
    /\ applied[lastOp.r] = {"SetInsertMeta", "SetUpdateMeta"}
    /\ \E r \in Records \ {lastOp.r} : IsDeleted(records[r])

\* ---- C12 ----
\* C12: in every reachable state each of the three setters and five
\* accessors is enabled on every record (the setters short of the bounds on
\* allocations and identifiers): none requires an earlier call.  Right
\* after a SetUpdateMeta or SetDeleteMeta on a record that was never
\* inserted, its own timestamp is present and is the clock reading of the
\* call, Oid is still the zero ObjectID and CreatedAt the zero time.
C12_NoOrderEnforced ==
    \A r \in Records :
        /\ Len(generated) < MaxObjectIDs => ENABLED SetInsertMeta(r)
        /\ Len(heap) < MaxAllocs => ENABLED SetUpdateMeta(r)
        /\ Len(heap) < MaxAllocs => ENABLED SetDeleteMeta(r)
        /\ ENABLED CallIsDeleted(r)
        /\ ENABLED CallGetID(r)
        /\ ENABLED CallGetCreatedAt(r)
        /\ ENABLED CallGetUpdatedAt(r)
        /\ ENABLED CallGetDeletedAt(r)
        /\ (lastOp.op = "SetUpdateMeta" /\ lastOp.r = r
                /\ "SetInsertMeta" \notin applied[r]) =>
              /\ records[r].UpdatedAt # Nil
              /\ heap[records[r].UpdatedAt] = clock
              /\ records[r].Oid = NilObjectID
              /\ records[r].CreatedAt = ZeroTime
        /\ (lastOp.op = "SetDeleteMeta" /\ lastOp.r = r
                /\ "SetInsertMeta" \notin applied[r]) =>
              /\ records[r].DeletedAt # Nil
              /\ heap[records[r].DeletedAt] = clock
              /\ records[r].Oid = NilObjectID
              /\ records[r].CreatedAt = ZeroTime

\* a record that was never inserted has been updated and then deleted: both
\* timestamps are present, and GetID would still give the all-zero string
C12_Witness ==
    /\ lastOp.op = "SetDeleteMeta"
    /\ applied[lastOp.r] = {"SetUpdateMeta", "SetDeleteMeta"}
    /\ records[lastOp.r].UpdatedAt # Nil
    /\ records[lastOp.r].DeletedAt # Nil
    /\ GetID(records[lastOp.r]) = ZeroHex
    /\ GetCreatedAt(records[lastOp.r]) = ZeroTime

\* ---- C13 ----
\* C13: a call of IsDeleted, GetID, GetCreatedAt, GetUpdatedAt or
\* GetDeletedAt changes no field of any record and no stored timestamp, and
\* returns the current value of its field: GetID the 24 hexadecimal
\* characters of Oid, GetCreatedAt the CreatedAt time, GetUpdatedAt and
\* GetDeletedAt the stored pointer (nil when absent), IsDeleted whether
\* DeletedAt is present.
C13_AccessorsPure ==
    [][\A r \in Records :
          /\ (\E op \in {"IsDeleted", "GetID", "GetCreatedAt", "GetUpdatedAt",
                          "GetDeletedAt"} : Did(op, r)) =>
                records' = records /\ heap' = heap
          /\ Did("IsDeleted", r) => lastOp'.ret = Present(records[r].DeletedAt)
          /\ Did("GetID", r) => lastOp'.ret = Hex(records[r].Oid)
          /\ Did("GetCreatedAt", r) => lastOp'.ret = records[r].CreatedAt
          /\ Did("GetUpdatedAt", r) => lastOp'.ret = records[r].UpdatedAt
          /\ Did("GetDeletedAt", r) => lastOp'.ret = records[r].DeletedAt]_vars

\* GetUpdatedAt was called on a record that holds both optional timestamps
\* and returned the UpdatedAt pointer, which is not the DeletedAt pointer
C13_Witness ==
    /\ lastOp.op = "GetUpdatedAt"
    /\ records[lastOp.r].UpdatedAt # Nil
    /\ records[lastOp.r].DeletedAt # Nil
    /\ lastOp.ret = records[lastOp.r].UpdatedAt
    /\ lastOp.ret # records[lastOp.r].DeletedAt

\* ---- serialized form (struct tags of BaseCollection) ----
\* a BSON/JSON value: a date-time or null
DateTime(t) == [type |-> "datetime", v |-> t]

Null == [type |-> "null"]

\* the value an optional timestamp serializes to when it is not omitted
OptionalTime(p) == IF p = Nil THEN Null ELSE DateTime(Deref(p))

\* (variant) the optional timestamps are tagged without omitempty: every key
\* is written, a nil pointer as null
MarshalBSON_NoOmitEmpty(b) ==
    [k \in {"created_at", "updated_at", "deleted_at"}
            \cup (IF b.Oid = NilObjectID THEN {} ELSE {"_id"}) |->
        CASE k = "_id" -> [type |-> "objectID", v |-> b.Oid]
          [] k = "created_at" -> DateTime(b.CreatedAt)
          [] k = "updated_at" -> OptionalTime(b.UpdatedAt)
          [] k = "deleted_at" -> OptionalTime(b.DeletedAt)]

\* the BSON document of b: `_id,omitempty` (a zero ObjectID is omitted),
\* `created_at`, `updated_at,omitempty`, `deleted_at,omitempty` (a nil
\* pointer is omitted)
MarshalBSON(b) ==
    [k \in {"created_at"}
            \cup (IF b.Oid = NilObjectID THEN {} ELSE {"_id"})
            \cup (IF b.UpdatedAt = Nil THEN {} ELSE {"updated_at"})
            \cup (IF b.DeletedAt = Nil THEN {} ELSE {"deleted_at"}) |->
        CASE k = "_id" -> [type |-> "objectID", v |-> b.Oid]
          [] k = "created_at" -> DateTime(b.CreatedAt)
          [] k = "updated_at" -> OptionalTime(b.UpdatedAt)
          [] k = "deleted_at" -> OptionalTime(b.DeletedAt)]

\* the JSON object of b: the same tags; omitempty never omits the 12-byte
\* array `_id`, which is written as its hexadecimal string
MarshalJSON(b) ==
    [k \in {"_id", "created_at"}
            \cup (IF b.UpdatedAt = Nil THEN {} ELSE {"updated_at"})
            \cup (IF b.DeletedAt = Nil THEN {} ELSE {"deleted_at"}) |->
        CASE k = "_id" -> [type |-> "string", v |-> Hex(b.Oid)]
          [] k = "created_at" -> DateTime(b.CreatedAt)
          [] k = "updated_at" -> OptionalTime(b.UpdatedAt)
          [] k = "deleted_at" -> OptionalTime(b.DeletedAt)]

\* the filter {key: {"$exists": want}}: a document matches when it has the
\* key (whatever its value, null included) exactly if want is true
Exists(doc, key, want) == (key \in DOMAIN doc) <=> want

\* UserRepository.FindAll: the records whose document has no deleted_at
FindAll == {r \in Records : Exists(MarshalBSON(records[r]), "deleted_at", FALSE)}

\* UserRepository.FindDeleted: the records whose document has deleted_at
FindDeleted == {r \in Records : Exists(MarshalBSON(records[r]), "deleted_at", TRUE)}

\* ---- C15 ----
\* C15: in the BSON document and in the JSON object of every record, the
\* key updated_at (deleted_at) is present exactly when the field is present
\* on the record, and then holds the stored time, never null; the filter
\* "deleted_at does not exist" selects exactly the records with IsDeleted()
\* false and "deleted_at exists" exactly those with IsDeleted() true.
C15_OptionalKeysOmitted ==
    /\ \A r \in Records :
          \A d \in {MarshalBSON(records[r]), MarshalJSON(records[r])} :
              /\ "updated_at" \in DOMAIN d <=> Present(records[r].UpdatedAt)
              /\ "deleted_at" \in DOMAIN d <=> Present(records[r].DeletedAt)
              /\ \A k \in DOMAIN d : d[k] # Null
              /\ "updated_at" \in DOMAIN d =>
                    d["updated_at"] = DateTime(heap[records[r].UpdatedAt])
              /\ "deleted_at" \in DOMAIN d =>
                    d["deleted_at"] = DateTime(heap[records[r].DeletedAt])
    /\ FindAll = {r \in Records : ~IsDeleted(records[r])}
    /\ FindDeleted = {r \in Records : IsDeleted(records[r])}

\* one record is updated and not deleted, the other deleted and never
\* updated: each filter selects one of them
C15_Witness ==
    \E r, q \in Records :
        /\ r # q
        /\ records[r].UpdatedAt # Nil /\ records[r].DeletedAt = Nil
        /\ records[q].UpdatedAt = Nil /\ records[q].DeletedAt # Nil
        /\ FindAll = {r}
        /\ FindDeleted = {q}
        /\ DOMAIN MarshalBSON(records[q]) = {"created_at", "deleted_at"}

\* ---- vocabulary of the concurrent properties ----
\* the callers of each setter
CallersOf(op) == {c \in Callers : callers[c].op = op}

\* every call has returned
AllDone == \A c \in Callers : callers[c].pc = "done"

\* the words caller c has written so far
StoredBy(c) == {callers[c].stored[i] : i \in 1..Len(callers[c].stored)}

\* ---- C14 ----
\* C14 as stated: after all concurrent calls have returned, every field of
\* the record holds the value one of the calls wrote to that field (or its
\* zero value when no call wrote it): Oid is the identifier one SetInsertMeta
\* call generated, CreatedAt the time one SetInsertMeta call read, UpdatedAt
\* (DeletedAt) the pointer one SetUpdateMeta (SetDeleteMeta) call stored.
C14_LastWriteWinsPerField ==
    AllDone =>
        /\ IF CallersOf("SetInsertMeta") = {}
           THEN shared.Oid = NilObjectID /\ shared.CreatedAt = TimeWords(ZeroTime)
           ELSE /\ \E c \in CallersOf("SetInsertMeta") : shared.Oid = callers[c].oid
                /\ \E c \in CallersOf("SetInsertMeta") :
                      shared.CreatedAt = TimeWords(callers[c].now)
        /\ IF CallersOf("SetUpdateMeta") = {}
           THEN shared.UpdatedAt = Nil
           ELSE \E c \in CallersOf("SetUpdateMeta") : shared.UpdatedAt = callers[c].ptr
        /\ IF CallersOf("SetDeleteMeta") = {}
           THEN shared.DeletedAt = Nil
           ELSE \E c \in CallersOf("SetDeleteMeta") : shared.DeletedAt = callers[c].ptr

\* C14 as amended: after all concurrent calls have returned, UpdatedAt
\* (DeletedAt), a one-word pointer, is the pointer one SetUpdateMeta
\* (SetDeleteMeta) call stored and points to the time that call read, or is
\* nil when there was no such call, so a SetUpdateMeta and a SetDeleteMeta
\* both take effect; each machine word of Oid and of CreatedAt is the word
\* one SetInsertMeta call wrote (or zero when there was none), but the
\* words of one field need not come from the same call.
C14_LastWriteWinsPerWord ==
    AllDone =>
        /\ IF CallersOf("SetInsertMeta") = {}
           THEN shared.Oid = NilObjectID /\ shared.CreatedAt = TimeWords(ZeroTime)
           ELSE /\ \E c \in CallersOf("SetInsertMeta") : shared.Oid.ts = callers[c].oid.ts
                /\ \E c \in CallersOf("SetInsertMeta") : shared.Oid.ctr = callers[c].oid.ctr
                /\ shared.Oid.proc = processUnique
                /\ \E c \in CallersOf("SetInsertMeta") :
                      shared.CreatedAt.wall = callers[c].now
                /\ \E c \in CallersOf("SetInsertMeta") :
                      shared.CreatedAt.ext = callers[c].now
        /\ IF CallersOf("SetUpdateMeta") = {}
           THEN shared.UpdatedAt = Nil
           ELSE \E c \in CallersOf("SetUpdateMeta") :
                    /\ shared.UpdatedAt = callers[c].ptr
                    /\ shared.UpdatedAt \in 1..Len(heap)
                    /\ heap[shared.UpdatedAt] = callers[c].now
        /\ IF CallersOf("SetDeleteMeta") = {}
           THEN shared.DeletedAt = Nil
           ELSE \E c \in CallersOf("SetDeleteMeta") :
                    /\ shared.DeletedAt = callers[c].ptr
                    /\ shared.DeletedAt \in 1..Len(heap)
                    /\ heap[shared.DeletedAt] = callers[c].now

\* two concurrent SetUpdateMeta calls have returned and the surviving
\* UpdatedAt is the one of the call that read the clock first: the older
\* timestamp won
C14_Witness ==
    /\ AllDone
    /\ CallersOf("SetUpdateMeta") = Callers
    /\ shared.UpdatedAt = 1
    /\ Len(heap) = 2
    /\ heap[1] < heap[2]

\* ---- C16 ----
\* C16: a SetInsertMeta call reads the clock, then writes Oid, then writes
\* CreatedAt, as separate steps: the step that reads the clock writes no
\* field; every later step writes at most one word, and only of the field
\* being assigned; a call has written no word of Oid before it has an
\* identifier, and no word of CreatedAt before it has written all of Oid.
\* (The witness shows that two concurrent calls then can leave Oid from one
\* call and CreatedAt from the other.)
C16_InsertStepsInOrder ==
    [][\A c \in CallersOf("SetInsertMeta") :
          /\ (callers[c].pc = "start" /\ callers'[c].pc # "start") =>
                /\ shared' = shared
                /\ callers'[c].now = clock
                /\ callers'[c].stored = <<>>
          /\ \/ callers'[c].stored = callers[c].stored
             \/ \E w \in {"hi", "lo", "wall", "ext"} :
                   /\ callers'[c].stored = Append(callers[c].stored, w)
                   /\ w \in {"hi", "lo"} =>
                         /\ shared'.CreatedAt = shared.CreatedAt
                         /\ callers[c].now # ZeroTime
                         /\ \E i \in 1..Len(generated) : generated[i] = callers[c].oid
                   /\ w \in {"wall", "ext"} =>
                         /\ shared'.Oid = shared.Oid
                         /\ {"hi", "lo"} \subseteq StoredBy(c)
                   /\ shared'.UpdatedAt = shared.UpdatedAt
                   /\ shared'.DeletedAt = shared.DeletedAt]_vars

\* two concurrent SetInsertMeta calls have returned: Oid is the identifier
\* one call generated, CreatedAt the time the other call read, and the two
\* calls read different times
C16_Witness ==
    /\ AllDone
    /\ \E a, b \in Callers :
          /\ a # b
          /\ callers[a].op = "SetInsertMeta" /\ callers[b].op = "SetInsertMeta"
          /\ shared.Oid = callers[a].oid
          /\ shared.CreatedAt = TimeWords(callers[b].now)
          /\ callers[a].oid # callers[b].oid
          /\ callers[a].now # callers[b].now

\* ---- C17 ----
\* every pointer the caller keeps still points to the time seen through it
\* when it was obtained
HeldIntact ==
    held.kind # "none" =>
        /\ held.UpdatedAt # Nil =>
              held.UpdatedAt \in 1..Len(heap) /\ heap[held.UpdatedAt] = held.seenUpdatedAt
        /\ held.DeletedAt # Nil =>
              held.DeletedAt \in 1..Len(heap) /\ heap[held.DeletedAt] = held.seenDeletedAt

\* C17: no step changes a stored timestamp; a SetUpdateMeta or
\* SetDeleteMeta step stores the address of a timestamp that did not exist
\* before the step (so it is none of the pointers obtained earlier);
\* GetUpdatedAt and GetDeletedAt hand out the very pointer the field holds;
\* and after every step the pointers a caller keeps, from an accessor or in
\* a by-value copy of the record, still denote the times they denoted when
\* they were obtained.
C17_TimestampsNeverModifiedInPlace ==
    [][/\ \A p \in 1..Len(heap) : p \in 1..Len(heap') /\ heap'[p] = heap[p]
       /\ \A r \in Records :
             /\ Did("SetUpdateMeta", r) =>
                   /\ records'[r].UpdatedAt \in (1..Len(heap')) \ (1..Len(heap))
                   /\ records'[r].UpdatedAt \notin {held.UpdatedAt, held.DeletedAt}
             /\ Did("SetDeleteMeta", r) =>
                   /\ records'[r].DeletedAt \in (1..Len(heap')) \ (1..Len(heap))
                   /\ records'[r].DeletedAt \notin {held.UpdatedAt, held.DeletedAt}
             /\ Did("GetUpdatedAt", r) => held'.UpdatedAt = records[r].UpdatedAt
             /\ Did("GetDeletedAt", r) => held'.DeletedAt = records[r].DeletedAt
             /\ Did("copy", r) =>
                   /\ held'.UpdatedAt = records[r].UpdatedAt
                   /\ held'.DeletedAt = records[r].DeletedAt
       /\ HeldIntact']_vars

\* a caller kept the pointer GetUpdatedAt returned, and a later
\* SetUpdateMeta on the same record, at a later clock reading, gave the
\* record another pointer: the kept one still denotes the earlier time
C17_Witness ==
    /\ held.kind = "ref"
    /\ held.UpdatedAt = 1
    /\ lastOp.op = "SetUpdateMeta" /\ lastOp.r = held.r
    /\ records[held.r].UpdatedAt = 2
    /\ heap[1] = held.seenUpdatedAt
    /\ heap[2] > held.seenUpdatedAt

====
